---- MODULE Spec2Model ----
(***************************************************************************)
(* Model of cli/internal/filter/country_filter.go: the CountryFilter, its  *)
(* IsAllowed decision, its three counters behind a sync.RWMutex, GetStats  *)
(* and Close.  Several callers run IsAllowed and GetStats concurrently;    *)
(* every statement that touches shared state is a step of its own.         *)
(***************************************************************************)
EXTENDS Integers, Sequences, FiniteSets, TLC

\* ---------------------------------------------------------------- bounds
NumCallers == 2
MaxCalls == 2

Procs == 1..NumCallers
NoOne == 0

\* ------------------------------------------------------- input addresses
\* A textual address is its separator and the numeric values of the fields
\* between separators (-1: a field that is not a number; for ":" the fields
\* are the eight groups after "::" expansion).
V4(a, b, c, d) == [sep |-> ".", f |-> <<a, b, c, d>>]
V6(h) == [sep |-> ":", f |-> h]

IpStrs ==
  { [sep |-> ".", f |-> <<-1>>],                 \* "garbage"
    V4(8, 8, 8, 8),
    V4(127, 0, 0, 1),
    V4(224, 0, 0, 1),
    V6(<<65152, 0, 0, 0, 0, 0, 0, 1>>),          \* fe80::1
    V6(<<0, 0, 0, 0, 0, 65535, 49320, 257>>) }   \* ::ffff:192.168.1.1

nil == <<>>

InRange(s, n, hi) == Len(s) = n /\ \A i \in 1..n : s[i] \in 0..hi

\* net.ParseIP: the 16-byte form (eight groups), IPv4 as ::ffff:a.b.c.d
ParseIP(s) ==
  IF s.sep = "." /\ InRange(s.f, 4, 255)
    THEN <<0, 0, 0, 0, 0, 65535, s.f[1] * 256 + s.f[2], s.f[3] * 256 + s.f[4]>>
  ELSE IF s.sep = ":" /\ InRange(s.f, 8, 65535) THEN s.f
  ELSE nil

\* net.IP.To4: the four octets of an IPv4(-mapped) address, else nil
To4(ip) ==
  IF Len(ip) = 8 /\ (\A i \in 1..5 : ip[i] = 0) /\ ip[6] = 65535
    THEN <<ip[7] \div 256, ip[7] % 256, ip[8] \div 256, ip[8] % 256>>
    ELSE nil

Byte0(ip) == ip[1] \div 256
Byte1(ip) == ip[1] % 256

IsLoopback(ip) ==
  IF To4(ip) # nil THEN To4(ip)[1] = 127
  ELSE ip = <<0, 0, 0, 0, 0, 0, 0, 1>>

IsPrivate(ip) ==
  IF To4(ip) # nil
    THEN \/ To4(ip)[1] = 10
         \/ To4(ip)[1] = 172 /\ To4(ip)[2] \div 16 = 1
         \/ To4(ip)[1] = 192 /\ To4(ip)[2] = 168
    ELSE Len(ip) = 8 /\ Byte0(ip) \div 2 = 126

IsLinkLocalUnicast(ip) ==
  IF To4(ip) # nil THEN To4(ip)[1] = 169 /\ To4(ip)[2] = 254
  ELSE Byte0(ip) = 254 /\ Byte1(ip) \div 64 = 2

IsLinkLocalMulticast(ip) ==
  IF To4(ip) # nil THEN To4(ip)[1] = 224 /\ To4(ip)[2] = 0 /\ To4(ip)[3] = 0
  ELSE Byte0(ip) = 255 /\ Byte1(ip) % 16 = 2

isPrivateIPNoMulticast(ip) ==
  IsLoopback(ip) \/ IsPrivate(ip) \/ IsLinkLocalUnicast(ip)

isPrivateIP(ip) ==
  IsLoopback(ip) \/ IsPrivate(ip) \/ IsLinkLocalUnicast(ip)
    \/ IsLinkLocalMulticast(ip)

\* --------------------------------------------------------- construction
AllowLists ==
  { <<>>, <<"FR", "FR">>, <<"US", "", "UNKNOWN">> }

NewCountryFilterSkipFirst(list) == {list[i] : i \in 2..Len(list)}

\* the allow-set built from the list given to the constructor
NewCountryFilter(list) == {list[i] : i \in 1..Len(list)}

\* ------------------------------------------------ geolocation collaborator
\* db.Country(ip): an error, or a record whose IsoCode may be empty
Record(e, c) == [err |-> e, IsoCode |-> c]
NoRecord == Record(FALSE, "-")
LookupResults ==
  { Record(TRUE, ""), Record(FALSE, ""), Record(FALSE, "US"), Record(FALSE, "FR") }

\* ------------------------------------------------------------------ state
VARIABLES
  allowList,         \* the allowedCountries argument given to the constructor
  allowedCountries,  \* CountryFilter.allowedCountries (keys mapped to true)
  db,                \* state of the geoip2 reader handle: "open" or "closed"
  mu,                \* sync.RWMutex: writer holding or awaiting it, readers
  allowedCount, blockedCount, relayCount,
  pc,                \* each caller's position
  loc,               \* each caller's locals and return value
  calls,             \* IsAllowed calls issued so far
  updates,           \* counter increments completed so far
  crashed            \* the process died of a fault inside the lookup

vars == <<allowList, allowedCountries, db, mu, allowedCount, blockedCount,
          relayCount, pc, loc, calls, updates, crashed>>

Counters == <<allowedCount, blockedCount, relayCount>>

NoStr == [sep |-> "", f |-> <<>>]
NoRet == <<FALSE, "-", FALSE>>
Zero3 == <<0, 0, 0>>

InitLoc ==
  [ipStr |-> NoStr, ip |-> nil, record |-> NoRecord, lookups |-> 0, tmp |-> 0,
   pre |-> Zero3, eff |-> Zero3, ret |-> NoRet, snap |-> Zero3]

Init ==
  /\ allowList \in AllowLists
  /\ allowedCountries = NewCountryFilter(allowList)
  /\ db = "open"
  /\ mu = [writer |-> NoOne, readers |-> {}]
  /\ allowedCount = 0 /\ blockedCount = 0 /\ relayCount = 0
  /\ pc = [p \in Procs |-> "idle"]
  /\ loc = [p \in Procs |-> InitLoc]
  /\ calls = 0
  /\ updates = 0
  /\ crashed = FALSE

config == <<allowList, allowedCountries>>
counts == <<allowedCount, blockedCount, relayCount, updates>>

\* --------------------------------------------------- the decision branches
\* which of the three branches of IsAllowed the parsed address takes
Path(p) ==
  IF loc[p].ip = nil THEN "invalid"
  ELSE IF isPrivateIP(loc[p].ip) THEN "relay"
  ELSE "geo"

LookupFailed(r) == r.err \/ r.IsoCode = ""

TargetErrOnly(p) ==
  CASE Path(p) = "invalid" -> "blocked"
    [] Path(p) = "relay" -> "relay"
    [] OTHER -> IF loc[p].record.err THEN "blocked"
                ELSE IF loc[p].record.IsoCode \in allowedCountries THEN "allowed"
                ELSE "blocked"

\* the counter the call increments
Target(p) ==
  CASE Path(p) = "invalid" -> "blocked"
    [] Path(p) = "relay" -> "relay"
    [] OTHER -> IF LookupFailed(loc[p].record) THEN "blocked"
                ELSE IF loc[p].record.IsoCode \in allowedCountries THEN "allowed"
                ELSE "blocked"

DecisionInvalidUnknown(p) ==
  IF Path(p) = "relay" THEN <<TRUE, "RELAY", TRUE>>
  ELSE IF Path(p) = "invalid" \/ LookupFailed(loc[p].record)
    THEN <<FALSE, "UNKNOWN", FALSE>>
  ELSE <<loc[p].record.IsoCode \in allowedCountries, loc[p].record.IsoCode, FALSE>>

\* the triple the call returns
Decision(p) ==
  CASE Path(p) = "invalid" -> <<FALSE, "", FALSE>>
    [] Path(p) = "relay" -> <<TRUE, "RELAY", TRUE>>
    [] OTHER -> IF LookupFailed(loc[p].record) THEN <<FALSE, "UNKNOWN", FALSE>>
                ELSE <<loc[p].record.IsoCode \in allowedCountries,
                       loc[p].record.IsoCode, FALSE>>

CounterValue(name) ==
  CASE name = "allowed" -> allowedCount
    [] name = "blocked" -> blockedCount
    [] OTHER -> relayCount

Diff3(a, b) == <<a[1] - b[1], a[2] - b[2], a[3] - b[3]>>

\* ------------------------------------------------------------- sync.RWMutex
WriterFreeAlways == TRUE
WriterFree == mu.writer = NoOne
NoReadersAlways == TRUE
NoReaders == mu.readers = {}
ReadersAdmittedAlways == TRUE
ReadersAdmitted == mu.writer = NoOne

\* ---------------------------------------------------------------- IsAllowed
\* entry: parse the address and pick the branch
IsAllowed(p, s) ==
  /\ ~crashed /\ pc[p] = "idle" /\ calls < MaxCalls
  /\ loc' = [loc EXCEPT ![p] = [InitLoc EXCEPT !.ipStr = s, !.ip = ParseIP(s)]]
  /\ pc' = [pc EXCEPT ![p] = "lock"]
  /\ calls' = calls + 1
  /\ UNCHANGED <<config, db, mu, counts, crashed>>

\* f.mu.Lock(), first half: become the one pending writer, shutting out new
\* readers
Lock(p) ==
  /\ ~crashed /\ pc[p] = "lock" /\ WriterFree
  /\ mu' = [mu EXCEPT !.writer = p]
  /\ pc' = [pc EXCEPT ![p] = "lockWait"]
  /\ UNCHANGED <<config, db, counts, loc, calls, crashed>>

\* f.mu.Lock(), second half: the active readers have left
LockAcquired(p) ==
  /\ ~crashed /\ pc[p] = "lockWait" /\ NoReaders
  /\ loc' = [loc EXCEPT ![p].pre = Counters]
  /\ pc' = [pc EXCEPT ![p] = IF Path(p) = "geo" THEN "country" ELSE "inc"]
  /\ UNCHANGED <<config, db, mu, counts, calls, crashed>>

\* f.db.Country(ip) is entered
CountryCall(p) ==
  /\ ~crashed /\ pc[p] = "country"
  /\ loc' = [loc EXCEPT ![p].lookups = @ + 1]
  /\ pc' = [pc EXCEPT ![p] = "countryRet"]
  /\ UNCHANGED <<config, db, mu, counts, calls, crashed>>

\* f.db.Country(ip) returns.  On an open reader: whatever the database holds
\* for the address.  On a reader that Close has released: the reader's
\* "closed database" error, a result read before the release, or a fault on
\* the unmapped file that kills the process.
CountryReturn(p) ==
  /\ ~crashed /\ pc[p] = "countryRet"
  /\ \/ /\ \E r \in LookupResults : loc' = [loc EXCEPT ![p].record = r]
        /\ pc' = [pc EXCEPT ![p] = "inc"]
        /\ UNCHANGED crashed
     \/ /\ db = "closed"
        /\ crashed' = TRUE
        /\ UNCHANGED <<pc, loc>>
  /\ UNCHANGED <<config, db, mu, counts, calls>>

\* count++ reads the counter of the branch taken (the allow-set is read here)
IncRead(p) ==
  /\ ~crashed /\ pc[p] = "inc"
  /\ loc' = [loc EXCEPT ![p].tmp = CounterValue(Target(p))]
  /\ pc' = [pc EXCEPT ![p] = "store"]
  /\ UNCHANGED <<config, db, mu, counts, calls, crashed>>

IncWriteFallThrough(p) ==
  /\ ~crashed /\ pc[p] = "store"
  /\ allowedCount' = IF Target(p) = "allowed" THEN loc[p].tmp + 1 ELSE allowedCount
  /\ blockedCount' = IF Target(p) = "blocked" THEN loc[p].tmp + 1
                     ELSE IF Target(p) = "relay" THEN blockedCount + 1
                     ELSE blockedCount
  /\ relayCount' = IF Target(p) = "relay" THEN loc[p].tmp + 1 ELSE relayCount
  /\ updates' = updates + 1
  /\ pc' = [pc EXCEPT ![p] = "unlock"]
  /\ UNCHANGED <<config, db, mu, loc, calls, crashed>>

\* count++ writes the counter back
IncWrite(p) ==
  /\ ~crashed /\ pc[p] = "store"
  /\ allowedCount' = IF Target(p) = "allowed" THEN loc[p].tmp + 1 ELSE allowedCount
  /\ blockedCount' = IF Target(p) = "blocked" THEN loc[p].tmp + 1 ELSE blockedCount
  /\ relayCount' = IF Target(p) = "relay" THEN loc[p].tmp + 1 ELSE relayCount
  /\ updates' = updates + 1
  /\ pc' = [pc EXCEPT ![p] = "unlock"]
  /\ UNCHANGED <<config, db, mu, loc, calls, crashed>>

UnlockNotOnInvalid(p) ==
  /\ ~crashed /\ pc[p] = "unlock"
  /\ mu' = IF Path(p) = "invalid" THEN mu ELSE [mu EXCEPT !.writer = NoOne]
  /\ loc' = [loc EXCEPT ![p].ret = Decision(p),
                        ![p].eff = Diff3(Counters, loc[p].pre)]
  /\ pc' = [pc EXCEPT ![p] = "returned"]
  /\ UNCHANGED <<config, db, counts, calls, crashed>>

\* f.mu.Unlock() (deferred on the lookup branch) and the return statement
Unlock(p) ==
  /\ ~crashed /\ pc[p] = "unlock"
  /\ mu' = [mu EXCEPT !.writer = NoOne]
  /\ loc' = [loc EXCEPT ![p].ret = Decision(p),
                        ![p].eff = Diff3(Counters, loc[p].pre)]
  /\ pc' = [pc EXCEPT ![p] = "returned"]
  /\ UNCHANGED <<config, db, counts, calls, crashed>>

\* the caller has taken the result and is free to call again
Return(p) ==
  /\ ~crashed /\ pc[p] \in {"returned", "statsReturned"}
  /\ loc' = [loc EXCEPT ![p] = InitLoc]
  /\ pc' = [pc EXCEPT ![p] = "idle"]
  /\ UNCHANGED <<config, db, mu, counts, calls, crashed>>

\* ----------------------------------------------------------------- GetStats
GetStats(p) ==
  /\ ~crashed /\ pc[p] = "idle"
  /\ pc' = [pc EXCEPT ![p] = "rlock"]
  /\ UNCHANGED <<config, db, mu, counts, loc, calls, crashed>>

\* f.mu.RLock(): admitted unless a writer holds or awaits the lock
RLock(p) ==
  /\ ~crashed /\ pc[p] = "rlock" /\ ReadersAdmitted
  /\ mu' = [mu EXCEPT !.readers = @ \cup {p}]
  /\ pc' = [pc EXCEPT ![p] = "readAllowed"]
  /\ UNCHANGED <<config, db, counts, loc, calls, crashed>>

\* the three operands of the return statement, left to right
ReadAllowed(p) ==
  /\ ~crashed /\ pc[p] = "readAllowed"
  /\ loc' = [loc EXCEPT ![p].snap[1] = allowedCount]
  /\ pc' = [pc EXCEPT ![p] = "readBlocked"]
  /\ UNCHANGED <<config, db, mu, counts, calls, crashed>>

ReadBlocked(p) ==
  /\ ~crashed /\ pc[p] = "readBlocked"
  /\ loc' = [loc EXCEPT ![p].snap[2] = blockedCount]
  /\ pc' = [pc EXCEPT ![p] = "readRelay"]
  /\ UNCHANGED <<config, db, mu, counts, calls, crashed>>

ReadRelay(p) ==
  /\ ~crashed /\ pc[p] = "readRelay"
  /\ loc' = [loc EXCEPT ![p].snap[3] = relayCount]
  /\ pc' = [pc EXCEPT ![p] = "runlock"]
  /\ UNCHANGED <<config, db, mu, counts, calls, crashed>>

\* the deferred f.mu.RUnlock()
RUnlock(p) ==
  /\ ~crashed /\ pc[p] = "runlock"
  /\ mu' = [mu EXCEPT !.readers = @ \ {p}]
  /\ pc' = [pc EXCEPT ![p] = "statsReturned"]
  /\ UNCHANGED <<config, db, counts, loc, calls, crashed>>

\* -------------------------------------------------------------------- Close
\* f.db is never nil after construction; db.Close() releases the reader.
\* Close takes no lock.
Close ==
  /\ ~crashed
  /\ db' = "closed"
  /\ UNCHANGED <<config, mu, counts, pc, loc, calls, crashed>>

\* ------------------------------------------------------------ specification
Step(p) ==
  \/ Lock(p) \/ LockAcquired(p) \/ CountryCall(p) \/ CountryReturn(p)
  \/ IncRead(p) \/ IncWrite(p) \/ Unlock(p) \/ Return(p)
  \/ RLock(p) \/ ReadAllowed(p) \/ ReadBlocked(p) \/ ReadRelay(p) \/ RUnlock(p)

Next ==
  \/ \E p \in Procs : \E s \in IpStrs : IsAllowed(p, s)
  \/ \E p \in Procs : GetStats(p)
  \/ \E p \in Procs : Step(p)
  \/ Close

Spec == Init /\ [][Next]_vars

\* The same program under fair scheduling: every started call keeps being
\* scheduled (goroutines are preemptible).  One allow-list that lets one
\* country in and keeps one out, and one address per branch of IsAllowed:
\* the lock steps of a call depend on its branch only.
FairInit == Init /\ allowList = <<"US", "", "UNKNOWN">>

BranchIpStrs ==
  { [sep |-> ".", f |-> <<-1>>], V4(8, 8, 8, 8), V4(127, 0, 0, 1) }

FairNext ==
  \/ \E p \in Procs : \E s \in BranchIpStrs : IsAllowed(p, s)
  \/ \E p \in Procs : GetStats(p)
  \/ \E p \in Procs : Step(p)
  \/ Close

FairSpec == FairInit /\ [][FairNext]_vars /\ \A p \in Procs : WF_vars(Step(p))

\* ------------------------------------------------------------ the claims
InDecide == {"lock", "lockWait", "country", "countryRet", "inc", "store", "unlock"}
InStats == {"rlock", "readAllowed", "readBlocked", "readRelay", "runlock"}
WriteSection == {"country", "countryRet", "inc", "store", "unlock"}
ReadSection == {"readAllowed", "readBlocked", "readRelay", "runlock"}

Sum3(t) == t[1] + t[2] + t[3]
InList(c, list) == \E i \in 1..Len(list) : list[i] = c
Relayable(ip) ==
  IsLoopback(ip) \/ IsPrivate(ip) \/ IsLinkLocalUnicast(ip) \/ IsLinkLocalMulticast(ip)
Looked(p) == loc[p].lookups = 1 /\ loc[p].record # NoRecord

\* C1: once every issued IsAllowed call has returned, allowed + blocked +
\* relay equals the number of calls issued: no update lost, none doubled.
C1_CountersSumToCalls ==
  (\A p \in Procs : pc[p] \notin InDecide)
    => allowedCount + blockedCount + relayCount = calls

C1_Witness ==
  /\ \A p \in Procs : pc[p] \notin InDecide
  /\ \E p, q \in Procs : p # q /\ pc[p] = "returned" /\ pc[q] = "returned"
  /\ calls >= 2

\* C2: a parsable address that is loopback, private or link-local (unicast
\* or multicast) gets (true, "RELAY", true), moves only the relay counter,
\* by one, and causes no lookup, whatever the allow-set.
C2_PrivateIsRelay ==
  \A p \in Procs :
    (pc[p] = "returned" /\ ParseIP(loc[p].ipStr) # nil
       /\ Relayable(ParseIP(loc[p].ipStr)))
      => /\ loc[p].ret = <<TRUE, "RELAY", TRUE>>
         /\ loc[p].eff = <<0, 0, 1>>
         /\ loc[p].lookups = 0

C2_Witness ==
  \E p \in Procs :
    /\ pc[p] = "returned" /\ allowedCountries = {}
    /\ ParseIP(loc[p].ipStr) # nil
    /\ IsLinkLocalMulticast(ParseIP(loc[p].ipStr))
    /\ loc[p].ret = <<TRUE, "RELAY", TRUE>>

\* C3: a string that does not parse gets (false, "", false) and moves only
\* the blocked counter, by one.
C3_UnparsableIsBlocked ==
  \A p \in Procs :
    (pc[p] = "returned" /\ ParseIP(loc[p].ipStr) = nil)
      => /\ loc[p].ret = <<FALSE, "", FALSE>>
         /\ loc[p].eff = <<0, 1, 0>>

C3_Witness ==
  \E p \in Procs :
    pc[p] = "returned" /\ ParseIP(loc[p].ipStr) = nil /\ blockedCount >= 1

\* C4: a non-private address whose lookup yields a non-empty code c gets
\* (c is in the list given to the constructor, c, false) and moves only the
\* allowed counter (c listed) or only the blocked counter (c not listed).
C4_KnownCountryFollowsAllowList ==
  \A p \in Procs :
    (pc[p] = "returned" /\ ParseIP(loc[p].ipStr) # nil
       /\ ~Relayable(ParseIP(loc[p].ipStr))
       /\ Looked(p) /\ ~LookupFailed(loc[p].record))
      => LET c == loc[p].record.IsoCode
             listed == InList(c, allowList)
         IN /\ loc[p].ret = <<listed, c, FALSE>>
            /\ loc[p].eff = IF listed THEN <<1, 0, 0>> ELSE <<0, 1, 0>>

C4_Witness ==
  \E p, q \in Procs :
    /\ pc[p] = "returned" /\ loc[p].ret = <<TRUE, "US", FALSE>>
    /\ pc[q] = "returned" /\ loc[q].ret = <<FALSE, "FR", FALSE>>

\* C5: a non-private address whose lookup fails or yields an empty code
\* gets (false, "UNKNOWN", false) and moves only the blocked counter, even
\* when the allow-set holds "" or "UNKNOWN".
C5_UnknownCountryIsBlocked ==
  \A p \in Procs :
    (pc[p] = "returned" /\ ParseIP(loc[p].ipStr) # nil
       /\ ~Relayable(ParseIP(loc[p].ipStr))
       /\ Looked(p) /\ LookupFailed(loc[p].record))
      => /\ loc[p].ret = <<FALSE, "UNKNOWN", FALSE>>
         /\ loc[p].eff = <<0, 1, 0>>

C5_Witness ==
  \E p \in Procs :
    /\ pc[p] = "returned" /\ {"", "UNKNOWN"} \subseteq allowedCountries
    /\ Looked(p) /\ ~loc[p].record.err /\ loc[p].record.IsoCode = ""
    /\ loc[p].ret = <<FALSE, "UNKNOWN", FALSE>>

\* C6: the counters are never negative and never decrease; the counters
\* change only in the storing step of an IsAllowed call, which raises
\* exactly one of them by one (GetStats and Close change none); a completed
\* call has raised exactly one counter by one.
UnitStep(a, b) ==
  \E i \in 1..3 : b[i] = a[i] + 1 /\ \A j \in (1..3) \ {i} : b[j] = a[j]

C6_CountersMonotone ==
  /\ [](allowedCount >= 0 /\ blockedCount >= 0 /\ relayCount >= 0)
  /\ [](\A p \in Procs : pc[p] = "returned" => UnitStep(Zero3, loc[p].eff))
  /\ [][ /\ allowedCount' >= allowedCount
         /\ blockedCount' >= blockedCount
         /\ relayCount' >= relayCount
         /\ Counters' # Counters =>
              /\ UnitStep(Counters, Counters')
              /\ \E p \in Procs : pc[p] = "store" /\ pc'[p] = "unlock" ]_vars

C6_Witness ==
  /\ db = "closed"
  /\ \E p, q \in Procs :
       /\ pc[p] = "returned" /\ UnitStep(Zero3, loc[p].eff)
       /\ pc[q] = "statsReturned" /\ Sum3(loc[q].snap) >= 1

\* C7: the triple GetStats is about to return is the three counters as
\* they stand together at that instant, and its sum is the number of
\* counter updates completed by then.
C7_StatsSnapshot ==
  \A p \in Procs :
    pc[p] = "runlock"
      => /\ loc[p].snap = Counters
         /\ Sum3(loc[p].snap) = updates

C7_Witness ==
  \E p, q \in Procs :
    /\ pc[p] = "runlock" /\ Sum3(loc[p].snap) >= 1
    /\ pc[q] \in {"lock", "lockWait"}

\* C8: a caller inside the exclusive section of IsAllowed (lookup, allow-set
\* read, counter update) is the writer of the lock and alone: no other
\* caller is in that section or reading the statistics.
C8_WritersExclusive ==
  \A p \in Procs :
    pc[p] \in WriteSection
      => /\ mu.writer = p /\ mu.readers = {}
         /\ \A q \in Procs \ {p} : pc[q] \notin WriteSection \cup ReadSection

\* two GetStats callers hold the lock in shared mode together
C8_Witness ==
  \E p, q \in Procs :
    p # q /\ pc[p] \in ReadSection /\ pc[q] \in ReadSection /\ {p, q} \subseteq mu.readers

\* C9: with fair scheduling, and unless the lookup itself never returns
\* (the fault), every IsAllowed call and every GetStats call returns.
C9_EveryCallReturns ==
  \A p \in Procs :
    (pc[p] \in InDecide \cup InStats)
      ~> (pc[p] \in {"returned", "statsReturned"} \/ crashed)

C9_Witness ==
  \E p, q \in Procs :
    /\ pc[p] = "lock" /\ pc[q] = "unlock"
    /\ Path(q) = "invalid"

\* C10: no lookup runs on the reader once Close has released it.
C10_NoLookupOnClosedReader ==
  \A p \in Procs : pc[p] = "countryRet" => db = "open"

====
